---- MODULE Spec2Model ----
(***************************************************************************)
(* Model of the generic channel object of liquid-dsp                       *)
(* (src/channel/src/channel.c): create, add_awgn, add_carrier_offset,      *)
(* add_multipath and execute, with the oscillator (NCO), the FIR filter    *)
(* (FIRFILT) and the Gaussian generator (randnf) as collaborators.         *)
(*                                                                         *)
(* Arithmetic is exact.  A real number is <<n1, n2, n5, n10, den>>,        *)
(* standing for (n1 + n2*sqrt(2) + n5*sqrt(5) + n10*sqrt(10)) / den, kept  *)
(* in lowest terms with den > 0; this field holds 10^(k/20) for every k    *)
(* that is a multiple of 10, and M_SQRT1_2.  A complex number is           *)
(* <<re, im>>.  Phases are counted in quarter turns (pi/2 radians), so the *)
(* oscillator's rotation exp(j*theta) is one of 1, j, -1, -j.  Floating    *)
(* point rounding is not modelled.                                         *)
(***************************************************************************)
EXTENDS Integers, Sequences, FiniteSets, TLC

(***************************************************************************)
(* Bounds of the model                                                     *)
(***************************************************************************)
\* longest input buffer handed to one execute call
MaxNx == 2
\* samples executed over the life of one engine
MaxSamples == 2

(***************************************************************************)
(* Exact real arithmetic in Q(sqrt 2, sqrt 5)                              *)
(***************************************************************************)
\* F applied to the value of v, which is computed once
Bind(v, F(_)) == CHOOSE r \in {F(x) : x \in {v}} : TRUE

Abs(n) == IF n < 0 THEN -n ELSE n

RECURSIVE Gcd(_, _)
Gcd(a, b) == IF b = 0 THEN a ELSE Gcd(b, a % b)

\* lowest terms, positive denominator
RNorm(r0) ==
    Bind(r0, LAMBDA r :
        IF r[5] = 1 THEN r
        ELSE Bind(<<IF r[5] < 0 THEN -1 ELSE 1,
                    Gcd(Gcd(Gcd(Abs(r[1]), Abs(r[2])), Gcd(Abs(r[3]), Abs(r[4]))),
                        Abs(r[5]))>>,
                  LAMBDA sg :
                    <<(sg[1] * r[1]) \div sg[2], (sg[1] * r[2]) \div sg[2],
                      (sg[1] * r[3]) \div sg[2], (sg[1] * r[4]) \div sg[2],
                      (sg[1] * r[5]) \div sg[2]>>))

RInt(n) == <<n, 0, 0, 0, 1>>
RRat(n, d) == RNorm(<<n, 0, 0, 0, d>>)
RZero == RInt(0)
ROne == RInt(1)

RAdd(x0, y0) ==
    Bind(<<x0, y0>>, LAMBDA a :
        LET x == a[1]
            y == a[2]
        IN  IF x[5] = 1 /\ y[5] = 1
            THEN <<x[1] + y[1], x[2] + y[2], x[3] + y[3], x[4] + y[4], 1>>
            ELSE RNorm(<<x[1] * y[5] + y[1] * x[5], x[2] * y[5] + y[2] * x[5],
                         x[3] * y[5] + y[3] * x[5], x[4] * y[5] + y[4] * x[5],
                         x[5] * y[5]>>))

RNeg(x0) == Bind(x0, LAMBDA x : <<-x[1], -x[2], -x[3], -x[4], x[5]>>)

RSub(x, y) == RAdd(x, RNeg(y))

\* sqrt2*sqrt5 = sqrt10, sqrt2*sqrt10 = 2 sqrt5, sqrt5*sqrt10 = 5 sqrt2
RMul(x0, y0) ==
    Bind(<<x0, y0>>, LAMBDA a :
        LET x == a[1]
            y == a[2]
        IN  RNorm(<<x[1] * y[1] + 2 * x[2] * y[2] + 5 * x[3] * y[3] + 10 * x[4] * y[4],
                    x[1] * y[2] + x[2] * y[1] + 5 * (x[3] * y[4] + x[4] * y[3]),
                    x[1] * y[3] + x[3] * y[1] + 2 * (x[2] * y[4] + x[4] * y[2]),
                    x[1] * y[4] + x[4] * y[1] + x[2] * y[3] + x[3] * y[2],
                    x[5] * y[5]>>))

RECURSIVE IntPow(_, _)
IntPow(b, e) == IF e = 0 THEN 1 ELSE b * IntPow(b, e - 1)

\* 10^(m/2) for an integer m
Pow10Half(m) ==
    LET e == IF m % 2 = 0 THEN m \div 2 ELSE (m - 1) \div 2
        p == IF e >= 0 THEN <<IntPow(10, e), 1>> ELSE <<1, IntPow(10, -e)>>
    IN  IF m % 2 = 0 THEN <<p[1], 0, 0, 0, p[2]>> ELSE <<0, 0, 0, p[1], p[2]>>

\* powf(10.0f, dB/20.0f) for dB a multiple of 10
Powf10(dB) == Pow10Half(dB \div 10)

\* M_SQRT1_2 = sqrt(2)/2
M_SQRT1_2 == <<0, 1, 0, 0, 2>>

(***************************************************************************)
(* Complex arithmetic                                                      *)
(***************************************************************************)
Cx(re, im) == <<RInt(re), RInt(im)>>
CZero == Cx(0, 0)
COne == Cx(1, 0)
Complex_I == Cx(0, 1)

CAdd(x0, y0) ==
    Bind(<<x0, y0>>, LAMBDA a :
        <<RAdd(a[1][1], a[2][1]), RAdd(a[1][2], a[2][2])>>)

CMul(x0, y0) ==
    Bind(<<x0, y0>>, LAMBDA a :
        LET x == a[1]
            y == a[2]
        IN  IF x = CZero \/ y = CZero THEN CZero
            ELSE <<RSub(RMul(x[1], y[1]), RMul(x[2], y[2])),
                   RAdd(RMul(x[1], y[2]), RMul(x[2], y[1]))>>)

\* real scalar times complex
CScale(r0, x0) ==
    Bind(<<r0, x0>>, LAMBDA a : <<RMul(a[1], a[2][1]), RMul(a[1], a[2][2])>>)

\* real promoted to complex
CReal(r) == <<r, RZero>>

(***************************************************************************)
(* Program constants and input domains                                     *)
(***************************************************************************)
\* longest accepted multi-path filter
MAX_H_LEN == 1000

\* NULL coefficient pointer; a non-NULL array holds at least one entry
NULL == <<>>

\* period of the stand-in Gaussian generator
RngPeriod == 3

\* what malloc and realloc leave in the cells the code has not set yet; no
\* function reads such a cell before writing it (gamma, nstd, dphi and phi
\* are read only once their stage is enabled, the new cells of h are all
\* overwritten), so one placeholder stands for every bit pattern
GarbageVals == {-3}

\* capacity of the caller's output buffer, one more than the longest input
YCap == MaxNx + 1

\* an output cell no call has written
Unwritten == <<<<0, 0, 0, 0, 0>>, <<0, 0, 0, 0, 0>>>>

(***************************************************************************)
(* Collaborators: Gaussian generator, oscillator, FIR filter               *)
(***************************************************************************)
\* value returned by randnf() in generator state s
randnf(s) == RInt(2 * (s % RngPeriod) - 1)

\* generator state after k calls of randnf()
rng_advance(s, k) == (s + k) % RngPeriod

nco_create == [theta |-> 0, d_theta |-> 0]

nco_set_frequency(nco, f) == [nco EXCEPT !.d_theta = f]

nco_set_phase(nco, p) == [nco EXCEPT !.theta = p]

\* exp(j*theta), theta in quarter turns
nco_cexpf(nco) ==
    LET k == nco.theta % 4
    IN  IF k = 0 THEN Cx(1, 0)
        ELSE IF k = 1 THEN Cx(0, 1)
        ELSE IF k = 2 THEN Cx(-1, 0)
        ELSE Cx(0, -1)

\* rotate the sample by the current phase, then advance the phase
nco_mix_up(nco0, x) ==
    Bind(nco0, LAMBDA nco :
        [y |-> CMul(x, nco_cexpf(nco)),
         nco |-> [nco EXCEPT !.theta = nco.theta + nco.d_theta]])

FilterNull == [alloc |-> FALSE, h |-> <<>>, w |-> <<>>]

\* a filter with its own copy of the coefficients and an empty delay line
firfilt_create(h0, n) ==
    Bind(h0, LAMBDA h :
        [alloc |-> TRUE,
         h |-> [i \in 1..n |-> h[i]],
         w |-> [i \in 1..n |-> CZero]])

\* newest sample first
firfilt_push(f0, x0) ==
    Bind(<<f0, x0>>, LAMBDA a :
        [a[1] EXCEPT !.w = [i \in 1..Len(a[1].w) |->
                                IF i = 1 THEN a[2] ELSE a[1].w[i - 1]]])

RECURSIVE CSum(_, _)
CSum(term, S0) ==
    Bind(S0, LAMBDA S :
        IF S = {} THEN CZero
        ELSE Bind(CHOOSE k \in S : \A m \in S : k <= m,
                  LAMBDA i : CAdd(term[i], CSum(term, S \ {i}))))

\* sum over k of h[k]*w[k]; the terms that are zero are left out of the sum
firfilt_execute(f0) ==
    Bind(f0, LAMBDA f :
        Bind({i \in 1..Len(f.w) : f.w[i] # CZero /\ f.h[i] # CZero},
             LAMBDA nz :
                Bind([i \in nz |-> CMul(f.h[i], f.w[i])],
                     LAMBDA term : CSum(term, nz))))

(***************************************************************************)
(* The channel object                                                      *)
(***************************************************************************)
\* channel_create as it would be if it adopted the caller's coefficients
channel_create_adopting(_h, _n, g) ==
    [enabled_awgn      |-> 0,
     gamma             |-> RInt(g),
     nstd              |-> RInt(g),
     noise_floor_dB    |-> g,
     SNRdB             |-> g,
     enabled_carrier   |-> 0,
     dphi              |-> g,
     phi               |-> g,
     nco               |-> nco_create,
     enabled_multipath |-> 0,
     channel_filter    |-> FilterNull,
     h_len             |-> IF _n > 0 THEN _n ELSE 1,
     h                 |-> IF _n > 0 THEN _h ELSE <<Cx(1, 0)>>]

\* channel_create: _h and _n are not used; g is what malloc left behind
channel_create(_h, _n, g) ==
    [enabled_awgn      |-> 0,
     gamma             |-> RInt(g),
     nstd              |-> RInt(g),
     noise_floor_dB    |-> g,
     SNRdB             |-> g,
     enabled_carrier   |-> 0,
     dphi              |-> g,
     phi               |-> g,
     nco               |-> nco_create,
     enabled_multipath |-> 0,
     channel_filter    |-> FilterNull,
     h_len             |-> 1,
     h                 |-> <<Cx(1, 0)>>]

\* channel_add_awgn with the gain derived from the SNR alone
channel_add_awgn_snr_only(_q, _noise_floor_dB, _SNRdB) ==
    Bind([_q EXCEPT !.enabled_awgn = 1,
                    !.noise_floor_dB = _noise_floor_dB,
                    !.SNRdB = _SNRdB],
         LAMBDA q1 :
            [q1 EXCEPT !.nstd = Powf10(_noise_floor_dB),
                       !.gamma = Powf10(q1.SNRdB)])

channel_add_awgn(_q, _noise_floor_dB, _SNRdB) ==
    Bind([_q EXCEPT !.enabled_awgn = 1,
                    !.noise_floor_dB = _noise_floor_dB,
                    !.SNRdB = _SNRdB],
         LAMBDA q1 :
            [q1 EXCEPT !.nstd = Powf10(_noise_floor_dB),
                       !.gamma = Powf10(q1.SNRdB + q1.noise_floor_dB)])

\* channel_add_carrier_offset that also stores the phase where the comment
\* on the phi field says it goes, in the noise standard deviation
channel_add_carrier_offset_clobbering(_q, _frequency, _phase) ==
    Bind([_q EXCEPT !.enabled_carrier = 1,
                    !.dphi = _frequency,
                    !.phi = _phase,
                    !.nstd = RInt(_phase)],
         LAMBDA q1 :
            [q1 EXCEPT !.nco = nco_set_phase(nco_set_frequency(q1.nco, q1.dphi),
                                             q1.phi)])

\* channel_add_carrier_offset with the phase added to the oscillator's
\* current phase instead of replacing it
channel_add_carrier_offset_adjusting(_q, _frequency, _phase) ==
    Bind([_q EXCEPT !.enabled_carrier = 1,
                    !.dphi = _frequency,
                    !.phi = _phase],
         LAMBDA q1 :
            [q1 EXCEPT !.nco = nco_set_phase(nco_set_frequency(q1.nco, q1.dphi),
                                             q1.nco.theta + q1.phi)])

\* channel_add_carrier_offset without the NCO(_set_phase) call
channel_add_carrier_offset_no_phase(_q, _frequency, _phase) ==
    Bind([_q EXCEPT !.enabled_carrier = 1,
                    !.dphi = _frequency,
                    !.phi = _phase],
         LAMBDA q1 : [q1 EXCEPT !.nco = nco_set_frequency(q1.nco, q1.dphi)])

channel_add_carrier_offset(_q, _frequency, _phase) ==
    Bind([_q EXCEPT !.enabled_carrier = 1,
                    !.dphi = _frequency,
                    !.phi = _phase],
         LAMBDA q1 :
            [q1 EXCEPT !.nco = nco_set_phase(nco_set_frequency(q1.nco, q1.dphi),
                                             q1.phi)])

\* realloc: the common prefix is kept, the rest of the block is indeterminate
realloc(h0, n, g) ==
    Bind(h0, LAMBDA h : [i \in 1..n |-> IF i <= Len(h) THEN h[i] ELSE Cx(g, g)])

\* random_tap[s] is 0.05f * (randnf() * _Complex_I * randnf()) when the
\* generator is in state s before the first of the two draws
random_tap ==
    [s \in 0..(RngPeriod - 1) |->
        CScale(RRat(1, 20),
               CMul(CMul(CReal(randnf(s)), Complex_I),
                    CReal(randnf(rng_advance(s, 1)))))]

\* the NULL branch with the loop started at i = 0 and h[0] not set to 1
random_taps_from_0(rng, n) ==
    Bind(random_tap, LAMBDA tap :
        [k \in 1..n |-> tap[rng_advance(rng, 2 * (k - 1))]])

\* taps written by the NULL branch: h[0] = 1, then for i = 1 .. h_len-1
\* h[i] = 0.05f * (randnf() * _Complex_I * randnf()), two draws per tap
random_taps(rng, n) ==
    Bind(random_tap, LAMBDA tap :
        [k \in 1..n |->
            IF k = 1 THEN Cx(1, 0) ELSE tap[rng_advance(rng, 2 * (k - 2))]])

\* the body with the filter created before the coefficients are stored
add_multipath_body_stale_filter(_q, rng, _h, _h_len, g) ==
    Bind([_q EXCEPT !.enabled_multipath = 1], LAMBDA q1 :
    Bind(IF q1.h_len # _h_len
         THEN [q1 EXCEPT !.h = realloc(q1.h, _h_len, g)]
         ELSE q1, LAMBDA q2 :
    Bind([q2 EXCEPT !.h_len = _h_len], LAMBDA q3 :
    Bind(IF _h = NULL
         THEN [q3 EXCEPT !.h = random_taps(rng, q3.h_len)]
         ELSE [q3 EXCEPT !.h = [i \in 1..q3.h_len |-> _h[i]]], LAMBDA q4 :
        [q |-> [q4 EXCEPT !.channel_filter = firfilt_create(q2.h, q3.h_len)],
         rng |-> IF _h = NULL THEN rng_advance(rng, 2 * (q3.h_len - 1)) ELSE rng,
         outcome |-> "ok"]))))

\* the body with a filter of the same length kept and given the new
\* coefficients, instead of being destroyed and created again
add_multipath_body_keep_window(_q, rng, _h, _h_len, g) ==
    Bind([_q EXCEPT !.enabled_multipath = 1], LAMBDA q1 :
    Bind(IF q1.h_len # _h_len
         THEN [q1 EXCEPT !.h = realloc(q1.h, _h_len, g)]
         ELSE q1, LAMBDA q2 :
    Bind([q2 EXCEPT !.h_len = _h_len], LAMBDA q3 :
    Bind(IF _h = NULL
         THEN [q3 EXCEPT !.h = random_taps(rng, q3.h_len)]
         ELSE [q3 EXCEPT !.h = [i \in 1..q3.h_len |-> _h[i]]], LAMBDA q4 :
        [q |-> [q4 EXCEPT !.channel_filter =
                    IF _q.channel_filter.alloc /\ _q.h_len = _h_len
                    THEN [_q.channel_filter EXCEPT !.h = q4.h]
                    ELSE firfilt_create(q4.h, q4.h_len)],
         rng |-> IF _h = NULL THEN rng_advance(rng, 2 * (q3.h_len - 1)) ELSE rng,
         outcome |-> "ok"]))))

\* the part of channel_add_multipath after the length checks
add_multipath_body(_q, rng, _h, _h_len, g) ==
    Bind([_q EXCEPT !.enabled_multipath = 1], LAMBDA q1 :
    Bind(IF q1.h_len # _h_len
         THEN [q1 EXCEPT !.h = realloc(q1.h, _h_len, g)]
         ELSE q1, LAMBDA q2 :
    Bind([q2 EXCEPT !.h_len = _h_len], LAMBDA q3 :
    Bind(IF _h = NULL
         THEN [q3 EXCEPT !.h = random_taps(rng, q3.h_len)]
         ELSE [q3 EXCEPT !.h = [i \in 1..q3.h_len |-> _h[i]]], LAMBDA q4 :
        [q |-> [q4 EXCEPT !.channel_filter = firfilt_create(q4.h, q4.h_len)],
         rng |-> IF _h = NULL THEN rng_advance(rng, 2 * (q3.h_len - 1)) ELSE rng,
         outcome |-> "ok"]))))

\* channel_add_multipath with an over-long request cut down to the maximum
channel_add_multipath_clamping(_q, rng, _h, _h_len, g) ==
    IF _h_len = 0 THEN [q |-> _q, rng |-> rng, outcome |-> "ignored"]
    ELSE IF _h_len > MAX_H_LEN
    THEN add_multipath_body(_q, rng, _h, MAX_H_LEN, g)
    ELSE add_multipath_body(_q, rng, _h, _h_len, g)

\* channel_add_multipath with the length limit tested one too high
channel_add_multipath_limit_off_by_one(_q, rng, _h, _h_len, g) ==
    IF _h_len = 0 THEN [q |-> _q, rng |-> rng, outcome |-> "ignored"]
    ELSE IF _h_len > MAX_H_LEN + 1
    THEN [q |-> _q, rng |-> rng, outcome |-> "exit"]
    ELSE add_multipath_body(_q, rng, _h, _h_len, g)

\* channel_add_multipath with a zero-length call switching the stage off
channel_add_multipath_zero_disables(_q, rng, _h, _h_len, g) ==
    IF _h_len = 0
    THEN [q |-> [_q EXCEPT !.enabled_multipath = 0], rng |-> rng,
          outcome |-> "ignored"]
    ELSE IF _h_len > MAX_H_LEN THEN [q |-> _q, rng |-> rng, outcome |-> "exit"]
    ELSE add_multipath_body(_q, rng, _h, _h_len, g)

\* channel_add_multipath with the stage enabled before the length checks
channel_add_multipath_early_enable(_q, rng, _h, _h_len, g) ==
    IF _h_len = 0
    THEN [q |-> [_q EXCEPT !.enabled_multipath = 1], rng |-> rng,
          outcome |-> "ignored"]
    ELSE IF _h_len > MAX_H_LEN
    THEN [q |-> [_q EXCEPT !.enabled_multipath = 1], rng |-> rng,
          outcome |-> "exit"]
    ELSE add_multipath_body(_q, rng, _h, _h_len, g)

\* channel_add_multipath: the engine, the generator state and the outcome
\* ("ignored", "exit" or "ok") after the call
channel_add_multipath(_q, rng, _h, _h_len, g) ==
    IF _h_len = 0 THEN [q |-> _q, rng |-> rng, outcome |-> "ignored"]
    ELSE IF _h_len > MAX_H_LEN THEN [q |-> _q, rng |-> rng, outcome |-> "exit"]
    ELSE add_multipath_body(_q, rng, _h, _h_len, g)

(***************************************************************************)
(* Owned storage.  hp.obj, hp.nco and hp.h are the states of the engine    *)
(* block, the oscillator and the coefficient block ("live" or "freed");    *)
(* hp.filter is the state of the filter instance q->channel_filter refers  *)
(* to ("none" while the pointer is NULL); hp.leaked counts live filter     *)
(* instances no pointer refers to any more; hp.dfree counts releases of    *)
(* something already released.                                             *)
(***************************************************************************)
heap_create ==
    [obj |-> "live", nco |-> "live", h |-> "live", filter |-> "none",
     leaked |-> 0, dfree |-> 0]

\* release of one owned thing through its pointer
heap_release(hp, what) ==
    IF hp[what] = "live"
    THEN [hp EXCEPT ![what] = "freed"]
    ELSE [hp EXCEPT !.dfree = hp.dfree + 1]

\* a new filter instance is stored in q->channel_filter
heap_new_filter(hp) ==
    [hp EXCEPT !.filter = "live",
               !.leaked = IF hp.filter = "live" THEN hp.leaked + 1 ELSE hp.leaked]

\* channel_add_multipath with the previous filter never destroyed
add_multipath_heap_no_destroy(hp, _q, outcome) ==
    IF outcome # "ok" THEN hp ELSE heap_new_filter(hp)

\* what channel_add_multipath does to the owned storage: the previous
\* filter, if any, is destroyed and a new one is created
add_multipath_heap(hp, _q, outcome) ==
    IF outcome # "ok" THEN hp
    ELSE heap_new_filter(IF _q.channel_filter.alloc
                         THEN heap_release(hp, "filter")
                         ELSE hp)

\* channel_destroy: oscillator, coefficient block, filter if there is one,
\* then the engine block itself
channel_destroy(hp, _q) ==
    Bind(heap_release(heap_release(hp, "nco"), "h"), LAMBDA hp1 :
    Bind(IF _q.channel_filter.alloc THEN heap_release(hp1, "filter") ELSE hp1,
         LAMBDA hp2 : heap_release(hp2, "obj")))

\* the multi-path step without its else branch: _y[i] is left as it was
execute_filter_no_else(q0, xi) ==
    IF q0.enabled_multipath = 1
    THEN Bind(firfilt_push(q0.channel_filter, xi),
              LAMBDA f1 : [f |-> f1, y |-> firfilt_execute(f1)])
    ELSE [f |-> q0.channel_filter, y |-> Unwritten]

\* the multi-path step of the loop body: filter and value after it
execute_filter(q0, xi) ==
    IF q0.enabled_multipath = 1
    THEN Bind(firfilt_push(q0.channel_filter, xi),
              LAMBDA f1 : [f |-> f1, y |-> firfilt_execute(f1)])
    ELSE [f |-> q0.channel_filter, y |-> xi]

\* the carrier step with the advanced oscillator thrown away
execute_carrier_stuck(q0, y1) ==
    IF q0.enabled_carrier = 1
    THEN [y |-> nco_mix_up(q0.nco, y1).y, nco |-> q0.nco]
    ELSE [y |-> y1, nco |-> q0.nco]

\* the carrier step of the loop body: oscillator and value after it
execute_carrier(q0, y1) ==
    IF q0.enabled_carrier = 1
    THEN nco_mix_up(q0.nco, y1)
    ELSE [y |-> y1, nco |-> q0.nco]

\* the AWGN step with the two variates drawn whether or not the stage is
\* enabled
execute_awgn_always_draws(q0, rng, y2, order) ==
    IF q0.enabled_awgn = 1
    THEN Bind(<<randnf(rng), randnf(rng_advance(rng, 1))>>, LAMBDA d :
            LET re == IF order = "re_first" THEN d[1] ELSE d[2]
                im == IF order = "re_first" THEN d[2] ELSE d[1]
            IN  [y |-> CAdd(CScale(q0.gamma, y2),
                            CScale(M_SQRT1_2,
                                   CScale(q0.nstd,
                                          CAdd(CReal(re),
                                               CMul(Complex_I, CReal(im)))))),
                 rng |-> rng_advance(rng, 2)])
    ELSE [y |-> y2, rng |-> rng_advance(rng, 2)]

\* the AWGN step of the loop body; order tells which of the two randnf()
\* calls of "randnf() + _Complex_I*randnf()" the build evaluates first
execute_awgn(q0, rng, y2, order) ==
    IF q0.enabled_awgn = 1
    THEN Bind(<<randnf(rng), randnf(rng_advance(rng, 1))>>, LAMBDA d :
            LET re == IF order = "re_first" THEN d[1] ELSE d[2]
                im == IF order = "re_first" THEN d[2] ELSE d[1]
            IN  [y |-> CAdd(CScale(q0.gamma, y2),
                            CScale(M_SQRT1_2,
                                   CScale(q0.nstd,
                                          CAdd(CReal(re),
                                               CMul(Complex_I, CReal(im)))))),
                 rng |-> rng_advance(rng, 2)])
    ELSE [y |-> y2, rng |-> rng]

\* the loop body with the noise added before the carrier is mixed in
execute_sample_noise_first(st0, _x, i, order) ==
    Bind(st0, LAMBDA st :
    Bind(execute_filter(st.q, _x[i + 1]), LAMBDA s1 :
    Bind(execute_awgn(st.q, st.rng, s1.y, order), LAMBDA s3 :
    Bind(execute_carrier(st.q, s3.y), LAMBDA s2 :
        [q     |-> [st.q EXCEPT !.channel_filter = s1.f, !.nco = s2.nco],
         rng   |-> s3.rng,
         y     |-> [st.y EXCEPT ![i] = s2.y],
         trace |-> Append(st.trace, i)]))))

\* one pass of the loop body of channel_execute, for index i (0-based);
\* st is [q, rng, y, trace]
execute_sample(st0, _x, i, order) ==
    Bind(st0, LAMBDA st :
    Bind(execute_filter(st.q, _x[i + 1]), LAMBDA s1 :
    Bind(execute_carrier(st.q, s1.y), LAMBDA s2 :
    Bind(execute_awgn(st.q, st.rng, s2.y, order), LAMBDA s3 :
        [q     |-> [st.q EXCEPT !.channel_filter = s1.f, !.nco = s2.nco],
         rng   |-> s3.rng,
         y     |-> [st.y EXCEPT ![i] = s3.y],
         trace |-> Append(st.trace, i)]))))

RECURSIVE execute_loop(_, _, _, _, _)
execute_loop(st0, _x, _nx, i, order) ==
    Bind(st0, LAMBDA st :
        IF i < _nx
        THEN execute_loop(execute_sample(st, _x, i, order), _x, _nx, i + 1, order)
        ELSE st)

\* channel_execute with the oscillator set back to the configured phase at
\* the start of the call
channel_execute_rephased(_q, rng, _x, _nx, _y, order) ==
    Bind(execute_loop([q |-> [_q EXCEPT !.nco = nco_set_phase(_q.nco, _q.phi)],
                       rng |-> rng, y |-> _y, trace |-> <<>>],
                      _x, _nx, 0, order),
         LAMBDA st :
            [q |-> st.q, rng |-> st.rng, y |-> st.y, ny |-> _nx,
             trace |-> st.trace])

\* channel_execute with the loop started at index 1
channel_execute_from_1(_q, rng, _x, _nx, _y, order) ==
    Bind(execute_loop([q |-> _q, rng |-> rng, y |-> _y, trace |-> <<>>],
                      _x, _nx, 1, order),
         LAMBDA st :
            [q |-> st.q, rng |-> st.rng, y |-> st.y, ny |-> _nx,
             trace |-> st.trace])

\* channel_execute: engine, generator, output buffer, *_ny and the order in
\* which output cells were written
channel_execute(_q, rng, _x, _nx, _y, order) ==
    Bind(execute_loop([q |-> _q, rng |-> rng, y |-> _y, trace |-> <<>>],
                      _x, _nx, 0, order),
         LAMBDA st :
            [q |-> st.q, rng |-> st.rng, y |-> st.y, ny |-> _nx,
             trace |-> st.trace])

(***************************************************************************)
(* The statements of channel_add_multipath's body, one at a time.  st is   *)
(* [q, rng, heap].                                                         *)
(***************************************************************************)
mp_enable(st) == [st EXCEPT !.q.enabled_multipath = 1]

mp_realloc(st, _h_len, g) ==
    IF st.q.h_len # _h_len
    THEN [st EXCEPT !.q.h = realloc(st.q.h, _h_len, g)]
    ELSE st

mp_set_h_len(st, _h_len) == [st EXCEPT !.q.h_len = _h_len]

mp_coefficients(st, _h) ==
    IF _h = NULL
    THEN [st EXCEPT !.q.h = random_taps(st.rng, st.q.h_len),
                    !.rng = rng_advance(st.rng, 2 * (st.q.h_len - 1))]
    ELSE [st EXCEPT !.q.h = [i \in 1..st.q.h_len |-> _h[i]]]

mp_destroy_filter(st) ==
    IF st.q.channel_filter.alloc
    THEN [st EXCEPT !.heap = heap_release(st.heap, "filter")]
    ELSE st

\* the last statement creating a filter only when the engine holds none
mp_create_filter_if_null(st) ==
    IF st.q.channel_filter.alloc
    THEN st
    ELSE [st EXCEPT !.q.channel_filter = firfilt_create(st.q.h, st.q.h_len),
                    !.heap = heap_new_filter(st.heap)]

mp_create_filter(st) ==
    [st EXCEPT !.q.channel_filter = firfilt_create(st.q.h, st.q.h_len),
               !.heap = heap_new_filter(st.heap)]

\* the statement at position pc and the position after it
mp_statement(pc, st, _h, _h_len, g) ==
    IF pc = "enable" THEN [st |-> mp_enable(st), pc |-> "realloc"]
    ELSE IF pc = "realloc"
    THEN [st |-> mp_realloc(st, _h_len, g), pc |-> "h_len"]
    ELSE IF pc = "h_len" THEN [st |-> mp_set_h_len(st, _h_len), pc |-> "copy"]
    ELSE IF pc = "copy" THEN [st |-> mp_coefficients(st, _h), pc |-> "destroy"]
    ELSE IF pc = "destroy" THEN [st |-> mp_destroy_filter(st), pc |-> "create"]
    ELSE [st |-> mp_create_filter(st), pc |-> "idle"]

(***************************************************************************)
(* Inputs of the operations                                                *)
(***************************************************************************)
H1 == <<Cx(2, 0)>>
H2 == <<Cx(1, 0), Cx(0, 1)>>

\* an array of MAX_H_LEN + 1 taps whose first and last two entries are not
\* zero
HLong ==
    [i \in 1..(MAX_H_LEN + 1) |->
        IF i = 1 THEN Cx(0, 2)
        ELSE IF i = MAX_H_LEN THEN Cx(0, 1)
        ELSE IF i = MAX_H_LEN + 1 THEN Cx(3, 0)
        ELSE CZero]

CreateArgs == {<<NULL, 0>>, <<H2, 2>>}

\* <<noise floor dB, SNR dB>>
AwgnArgs == {<<0, 20>>, <<-20, 10>>}

\* <<frequency, phase>> in quarter turns
CarrierArgs == {<<1, 0>>, <<2, 1>>}

\* <<coefficients or NULL, length>>
MultipathArgs ==
    {<<NULL, 0>>, <<H2, 0>>, <<NULL, 2>>, <<H1, 1>>, <<H2, 2>>}

\* input buffers of n samples: the two sample values in alternation
Buffers(n) ==
    {[i \in 1..n |-> IF i % 2 = 0 THEN Cx(1, 0) ELSE Cx(2, 1)]}

ExecuteArgs == UNION {Buffers(n) : n \in 0..MaxNx}

\* the caller's output buffer and *_ny before the call
YFresh == [i \in 0..(YCap - 1) |-> Unwritten]
NyFresh == -1

(***************************************************************************)
(* State                                                                   *)
(***************************************************************************)
VARIABLES
    q,       \* the channel object (struct channel_s)
    rng,     \* state of the Gaussian generator
    order,   \* which randnf() of "randnf() + _Complex_I*randnf()" runs first
    status,  \* "alive", "exited" once exit(1) was called, or "destroyed"
    call,    \* the most recent call: its arguments and what it returned
    hist,    \* history: any configure call made, last add_awgn arguments,
             \* samples executed so far, samples mixed since the last
             \* add_carrier_offset, whether a filter that held samples was
             \* ever replaced
    heap,    \* the storage the engine owns
    thr      \* two threads of control inside calls on the one engine: where
             \* each is, its arguments and locals, and what went wrong

vars == <<q, rng, order, status, call, hist, heap, thr>>

NoCall ==
    [op |-> "none", h |-> NULL, n |-> 0, a |-> 0, b |-> 0, x |-> <<>>,
     y |-> YFresh, ny |-> NyFresh, trace |-> <<>>, outcome |-> "ok",
     rep |-> FALSE]

\* no call in progress; m and e say where the thread inside
\* channel_add_multipath and the thread inside channel_execute are; h, n and
\* g are the former's arguments and the garbage its realloc leaves, x, i and
\* y the latter's input, loop index and output buffer; pre is the engine and
\* generator when the call that began last began
ThrIdle ==
    [m |-> "idle", e |-> "idle", h |-> NULL, n |-> 0, g |-> 0, x |-> <<>>,
     i |-> 0, y |-> YFresh, pre |-> <<>>, hazard |-> "none",
     overlap |-> FALSE]

Init ==
    \E args \in CreateArgs, g \in GarbageVals :
        /\ q = channel_create(args[1], args[2], g)
        /\ rng \in 0..(RngPeriod - 1)
        /\ order \in {"re_first", "im_first"}
        /\ status = "alive"
        /\ call = [NoCall EXCEPT !.op = "create", !.h = args[1], !.n = args[2]]
        /\ hist = [configured |-> FALSE, awgn |-> <<>>, nsamp |-> 0, ncar |-> 0,
                   discarded |-> FALSE]
        /\ heap = heap_create
        /\ thr = ThrIdle

AddAwgn ==
    \E args \in AwgnArgs :
        /\ status = "alive"
        /\ q' = channel_add_awgn(q, args[1], args[2])
        /\ call' = [NoCall EXCEPT !.op = "add_awgn", !.a = args[1], !.b = args[2]]
        /\ hist' = [hist EXCEPT !.configured = TRUE, !.awgn = args]
        /\ UNCHANGED <<rng, order, status, heap, thr>>

AddCarrierOffset ==
    \E args \in CarrierArgs :
        /\ status = "alive"
        /\ q' = channel_add_carrier_offset(q, args[1], args[2])
        /\ call' = [NoCall EXCEPT !.op = "add_carrier_offset",
                                  !.a = args[1], !.b = args[2]]
        /\ hist' = [hist EXCEPT !.configured = TRUE, !.ncar = 0]
        /\ UNCHANGED <<rng, order, status, heap, thr>>

AddMultipathWith(argset) ==
    /\ status = "alive"
    /\ \E args \in argset, g \in GarbageVals :
        \E r \in {channel_add_multipath(q, rng, args[1], args[2], g)} :
            /\ q' = r.q
            /\ rng' = r.rng
            /\ status' = IF r.outcome = "exit" THEN "exited" ELSE "alive"
            /\ call' = [NoCall EXCEPT !.op = "add_multipath", !.h = args[1],
                                      !.n = args[2], !.outcome = r.outcome]
            /\ hist' = [hist EXCEPT
                            !.configured = TRUE,
                            !.discarded =
                                \/ hist.discarded
                                \/ /\ r.outcome = "ok"
                                   /\ q.channel_filter.alloc
                                   /\ \E i \in 1..Len(q.channel_filter.w) :
                                          q.channel_filter.w[i] # CZero]
            /\ heap' = add_multipath_heap(heap, q, r.outcome)
            /\ UNCHANGED <<order, thr>>

AddMultipath == AddMultipathWith(MultipathArgs)

ExecuteWith(argset) ==
    /\ status = "alive"
    /\ \E x \in argset :
        /\ hist.nsamp + Len(x) <= MaxSamples
        /\ \E r \in {channel_execute(q, rng, x, Len(x), YFresh, order)} :
            /\ q' = r.q
            /\ rng' = r.rng
            /\ call' = [NoCall EXCEPT !.op = "execute", !.x = x, !.n = Len(x),
                                      !.y = r.y, !.ny = r.ny, !.trace = r.trace]
            /\ hist' = [hist EXCEPT !.nsamp = hist.nsamp + Len(x),
                                    !.ncar = IF q.enabled_carrier = 1
                                             THEN hist.ncar + Len(x)
                                             ELSE hist.ncar]
            /\ UNCHANGED <<order, status, heap, thr>>

Execute == ExecuteWith(ExecuteArgs)

Destroy ==
    /\ status = "alive"
    /\ status' = "destroyed"
    /\ heap' = channel_destroy(heap, q)
    /\ call' = [NoCall EXCEPT !.op = "destroy"]
    /\ UNCHANGED <<q, rng, order, hist, thr>>

Next == AddAwgn \/ AddCarrierOffset \/ AddMultipath \/ Execute \/ Destroy

Spec == Init /\ [][Next]_vars

(***************************************************************************)
(* The same engine driven with filters at and beyond the length limit      *)
(***************************************************************************)
LongMultipathArgs ==
    {<<NULL, 0>>, <<NULL, 1>>, <<H1, 1>>, <<NULL, 2>>,
     <<NULL, MAX_H_LEN>>, <<HLong, MAX_H_LEN>>,
     <<NULL, MAX_H_LEN + 1>>, <<HLong, MAX_H_LEN + 1>>}

ShortExecuteArgs == {<<>>, <<Cx(2, 1)>>}

AddLongMultipath == AddMultipathWith(LongMultipathArgs)

ExecuteShort == ExecuteWith(ShortExecuteArgs)

NextLong == AddLongMultipath \/ ExecuteShort

SpecLong == Init /\ [][NextLong]_vars

(***************************************************************************)
(* The engine with every configure call possibly made a second time with   *)
(* the same arguments; call.rep tells that the last call was such a repeat *)
(***************************************************************************)
ConfigOps == {"add_awgn", "add_carrier_offset", "add_multipath"}

Again ==
    /\ status = "alive"
    /\ call.op \in ConfigOps
    /\ \E g \in GarbageVals :
        \E r \in {IF call.op = "add_awgn"
                  THEN [q |-> channel_add_awgn(q, call.a, call.b),
                        rng |-> rng, outcome |-> "ok"]
                  ELSE IF call.op = "add_carrier_offset"
                  THEN [q |-> channel_add_carrier_offset(q, call.a, call.b),
                        rng |-> rng, outcome |-> "ok"]
                  ELSE channel_add_multipath(q, rng, call.h, call.n, g)} :
            /\ q' = r.q
            /\ rng' = r.rng
            /\ status' = IF r.outcome = "exit" THEN "exited" ELSE "alive"
            /\ call' = [call EXCEPT !.outcome = r.outcome, !.rep = TRUE]
            /\ hist' = [hist EXCEPT !.ncar = IF call.op = "add_carrier_offset"
                                             THEN 0 ELSE hist.ncar]
            /\ heap' = IF call.op = "add_multipath"
                       THEN add_multipath_heap(heap, q, r.outcome)
                       ELSE heap
            /\ UNCHANGED <<order, thr>>

NextTwice ==
    AddAwgn \/ AddCarrierOffset \/ AddMultipath \/ ExecuteShort \/ Again

SpecTwice == Init /\ [][NextTwice]_vars

(***************************************************************************)
(* channel_add_multipath and channel_execute on the one engine from two    *)
(* threads, a statement at a time.  Nothing in the code orders the two.    *)
(***************************************************************************)
RaceMultipathArgs == {<<NULL, 2>>, <<H1, 1>>, <<H2, 2>>}

\* a call of channel_add_multipath with a valid length enters its body
MpBegin ==
    /\ status = "alive"
    /\ thr.m = "idle"
    /\ \E args \in RaceMultipathArgs, g \in GarbageVals :
        thr' = [thr EXCEPT !.m = "enable", !.h = args[1], !.n = args[2],
                           !.g = g, !.pre = <<q, rng>>,
                           !.overlap = thr.overlap \/ thr.e # "idle"]
    /\ UNCHANGED <<q, rng, order, status, call, hist, heap>>

\* the thread inside channel_add_multipath runs its next statement
MpStep ==
    /\ status = "alive"
    /\ thr.m # "idle"
    /\ \E r \in {mp_statement(thr.m, [q |-> q, rng |-> rng, heap |-> heap],
                              thr.h, thr.n, thr.g)} :
        /\ q' = r.st.q
        /\ rng' = r.st.rng
        /\ heap' = r.st.heap
        /\ thr' = [thr EXCEPT !.m = r.pc]
        /\ IF r.pc = "idle"
           THEN /\ call' = [NoCall EXCEPT !.op = "add_multipath", !.h = thr.h,
                                          !.n = thr.n]
                /\ hist' = [hist EXCEPT !.configured = TRUE]
           ELSE IF thr.m = "destroy"
           THEN /\ hist' = [hist EXCEPT
                               !.discarded =
                                   \/ hist.discarded
                                   \/ /\ q.channel_filter.alloc
                                      /\ \E i \in 1..Len(q.channel_filter.w) :
                                             q.channel_filter.w[i] # CZero]
                /\ UNCHANGED call
           ELSE UNCHANGED <<call, hist>>
    /\ UNCHANGED <<order, status>>

\* a call of channel_execute enters its loop
ExBegin ==
    /\ status = "alive"
    /\ thr.e = "idle"
    /\ \E x \in ShortExecuteArgs :
        /\ hist.nsamp + Len(x) <= MaxSamples
        /\ thr' = [thr EXCEPT !.e = "test", !.x = x, !.i = 0, !.y = YFresh,
                              !.pre = <<q, rng>>,
                              !.overlap = thr.overlap \/ thr.m # "idle"]
    /\ UNCHANGED <<q, rng, order, status, call, hist, heap>>

\* the loop test and the test of enabled_multipath, or the return
ExTest ==
    /\ status = "alive"
    /\ thr.e = "test"
    /\ IF thr.i < Len(thr.x)
       THEN /\ thr' = IF q.enabled_multipath = 1
                      THEN [thr EXCEPT !.e = "push"]
                      ELSE [thr EXCEPT !.e = "carrier",
                                       !.y[thr.i] = thr.x[thr.i + 1]]
            /\ UNCHANGED <<call, hist>>
       ELSE /\ thr' = [thr EXCEPT !.e = "idle"]
            /\ call' = [NoCall EXCEPT !.op = "execute", !.x = thr.x,
                                      !.n = Len(thr.x), !.y = thr.y,
                                      !.ny = Len(thr.x),
                                      !.trace = [k \in 1..Len(thr.x) |-> k - 1]]
            /\ hist' = [hist EXCEPT !.nsamp = hist.nsamp + Len(thr.x),
                                    !.ncar = IF q.enabled_carrier = 1
                                             THEN hist.ncar + Len(thr.x)
                                             ELSE hist.ncar]
    /\ UNCHANGED <<q, rng, order, status, heap>>

\* FIRFILT(_push) and FIRFILT(_execute) on whatever channel_filter refers
\* to.  On a filter that is not alive the behaviour is undefined: the
\* process stops, or it goes on with an indeterminate value.
ExFilter ==
    /\ status = "alive"
    /\ thr.e \in {"push", "execute"}
    /\ IF heap.filter = "live"
       THEN /\ IF thr.e = "push"
               THEN /\ q' = [q EXCEPT !.channel_filter =
                                firfilt_push(q.channel_filter, thr.x[thr.i + 1])]
                    /\ thr' = [thr EXCEPT !.e = "execute"]
               ELSE /\ thr' = [thr EXCEPT !.e = "carrier",
                                  !.y[thr.i] = firfilt_execute(q.channel_filter)]
                    /\ UNCHANGED q
            /\ UNCHANGED status
       ELSE \E hz \in {IF heap.filter = "freed" THEN "destroyed_filter"
                       ELSE "missing_filter"} :
              \/ /\ status' = "crashed"
                 /\ thr' = [thr EXCEPT !.hazard = hz]
                 /\ UNCHANGED q
              \/ /\ \E g \in GarbageVals :
                      thr' = [thr EXCEPT !.hazard = hz, !.e = "carrier",
                                         !.y[thr.i] = Cx(g, g)]
                 /\ UNCHANGED <<q, status>>
    /\ UNCHANGED <<rng, order, call, hist, heap>>

\* the carrier statement, then the noise statement and i++
ExRest ==
    /\ status = "alive"
    /\ thr.e \in {"carrier", "awgn"}
    /\ IF thr.e = "carrier"
       THEN \E r \in {execute_carrier(q, thr.y[thr.i])} :
              /\ q' = [q EXCEPT !.nco = r.nco]
              /\ thr' = [thr EXCEPT !.e = "awgn", !.y[thr.i] = r.y]
              /\ UNCHANGED rng
       ELSE \E r \in {execute_awgn(q, rng, thr.y[thr.i], order)} :
              /\ rng' = r.rng
              /\ thr' = [thr EXCEPT !.e = "test", !.y[thr.i] = r.y,
                                    !.i = thr.i + 1]
              /\ UNCHANGED q
    /\ UNCHANGED <<order, status, call, hist, heap>>

NextRace == MpBegin \/ MpStep \/ ExBegin \/ ExTest \/ ExFilter \/ ExRest

SpecRace == Init /\ [][NextRace]_vars

(***************************************************************************)
(* Properties                                                              *)
(***************************************************************************)
AllDisabled ==
    q.enabled_awgn = 0 /\ q.enabled_carrier = 0 /\ q.enabled_multipath = 0

\* C1: pass-through identity.  On an engine on which only create has been
\* called (no configure call of any kind), execute on a buffer of n samples
\* writes y[i] = x[i] for all 0 <= i < n and reports output length n.
C1_PassThrough ==
    (call.op = "execute" /\ ~hist.configured) =>
        /\ call.ny = call.n
        /\ \A i \in 0..(call.n - 1) : call.y[i] = call.x[i + 1]

\* an unconfigured engine has executed a buffer of two different samples
C1_Witness ==
    /\ call.op = "execute"
    /\ ~hist.configured
    /\ call.n = 2
    /\ hist.nsamp = 2
    /\ call.y[0] # call.y[1]

\* C9: output length invariant.  Whatever stages are enabled and whatever the
\* input length n >= 0, execute processes the indices 0, 1, ..., n-1 in this
\* order, writes exactly the output cells 0..n-1, and reports length n.
C9_OutputLength ==
    call.op = "execute" =>
        /\ call.ny = call.n
        /\ call.trace = [k \in 1..call.n |-> k - 1]
        /\ \A i \in 0..(YCap - 1) : (call.y[i] # Unwritten) <=> (i < call.n)

\* two samples went through all three stages
C9_Witness ==
    /\ call.op = "execute"
    /\ call.n = 2
    /\ q.enabled_awgn = 1 /\ q.enabled_carrier = 1 /\ q.enabled_multipath = 1
    /\ call.trace = <<0, 1>>

Sqrt2 == <<0, 1, 0, 0, 1>>

CNeg(x) == <<RNeg(x[1]), RNeg(x[2])>>

\* the two draws of sample i of an execute call started in generator state
\* r, as <<real part, imaginary part>>
DrawsOf(r, i, ord) ==
    LET d1 == randnf(rng_advance(r, 2 * i))
        d2 == randnf(rng_advance(r, 2 * i + 1))
    IN  IF ord = "re_first" THEN <<d1, d2>> ELSE <<d2, d1>>

\* C2: pipeline order multipath, carrier, noise.  When execute runs with
\* noise enabled, every output sample equals gain times the output sample of
\* the same call on the same engine with the noise stage off, plus
\* noiseStdDev * (g1 + j*g2) / sqrt(2) for the two draws of that sample; the
\* filter and the oscillator end in the same state in both runs.
C2_PipelineOrder ==
    [][(call'.op = "execute" /\ q.enabled_awgn = 1) =>
        \A ref \in {channel_execute([q EXCEPT !.enabled_awgn = 0], rng, call'.x,
                                    call'.n, YFresh, order)} :
            /\ q'.channel_filter = ref.q.channel_filter
            /\ q'.nco = ref.q.nco
            /\ \A i \in 0..(call'.n - 1) :
                 CScale(Sqrt2, CAdd(call'.y[i], CNeg(CScale(q.gamma, ref.y[i]))))
                   = CScale(q.nstd, DrawsOf(rng, i, order))
      ]_vars

\* two samples went through a two-tap filter, a carrier that started a
\* quarter turn ahead, and noise of standard deviation 1/10
C2_Witness ==
    /\ call.op = "execute"
    /\ call.n = 2
    /\ q.enabled_awgn = 1 /\ q.enabled_carrier = 1 /\ q.enabled_multipath = 1
    /\ q.h_len = 2
    /\ q.phi = 1 /\ q.dphi = 2 /\ q.nco.theta = 5
    /\ q.noise_floor_dB = -20

\* C3: carrier continuity across calls.  With the carrier enabled, executing
\* the first k samples of a buffer and then the remaining ones gives the
\* same output samples, and the same engine and generator state, as one
\* execute call on the whole buffer, for every split point k.
C3_CarrierContinuity ==
    [][(call'.op = "execute" /\ q.enabled_carrier = 1) =>
        \A k \in 0..call'.n :
          \A a \in {channel_execute(q, rng, SubSeq(call'.x, 1, k), k, YFresh, order)} :
            \A b \in {channel_execute(a.q, a.rng, SubSeq(call'.x, k + 1, call'.n),
                                      call'.n - k, YFresh, order)} :
                /\ \A i \in 0..(k - 1) : a.y[i] = call'.y[i]
                /\ \A i \in 0..(call'.n - k - 1) : b.y[i] = call'.y[k + i]
                /\ a.ny + b.ny = call'.ny
                /\ b.q = q'
                /\ b.rng = rng'
      ]_vars

\* a second execute call on an engine with carrier and multipath enabled
\* whose oscillator has turned a quarter turn for each of the two samples
C3_Witness ==
    /\ call.op = "execute"
    /\ call.n = 1
    /\ hist.nsamp = 2
    /\ q.enabled_carrier = 1 /\ q.enabled_multipath = 1
    /\ q.h_len = 2 /\ q.channel_filter.w[2] # CZero
    /\ q.dphi = 1 /\ q.phi = 0 /\ q.nco.theta = 2

\* C4: multipath zero-length is a no-op.  In every reachable state
\* add_multipath with length 0, with coefficients or NULL, leaves the whole
\* engine (flags, coefficients and their length, filter and delay line,
\* noise and carrier state), the generator and the process as they were.
C4_ZeroLengthNoOp ==
    [][(call'.op = "add_multipath" /\ call'.n = 0) =>
        (q' = q /\ rng' = rng /\ status' = status /\ call'.outcome = "ignored")
      ]_vars

\* a zero-length call with coefficients on an engine whose filter already
\* holds samples
C4_Witness ==
    /\ call.op = "add_multipath"
    /\ call.n = 0
    /\ call.h # NULL
    /\ q.enabled_multipath = 1
    /\ q.h_len = 2
    /\ q.channel_filter.w[2] # CZero

\* v is 10^(dB/20), for dB a multiple of 10: v > 0 and v*v = 10^(dB/10)
IsPow10Twentieth(v, dB) ==
    /\ \/ (v[1] > 0 /\ v[2] = 0 /\ v[3] = 0 /\ v[4] = 0 /\ v[5] > 0)
       \/ (v[1] = 0 /\ v[2] = 0 /\ v[3] = 0 /\ v[4] > 0 /\ v[5] > 0)
    /\ RMul(v, v) = IF dB >= 0
                    THEN <<IntPow(10, dB \div 10), 0, 0, 0, 1>>
                    ELSE <<1, 0, 0, 0, IntPow(10, (-dB) \div 10)>>

\* C7: noise parameter derivation.  Once add_awgn has been called the noise
\* stage is enabled and nstd = 10^(noise_floor_dB/20), gamma =
\* 10^((SNRdB + noise_floor_dB)/20) for the arguments of the most recent
\* add_awgn call; no other operation changes gamma or nstd.  (0, 20) gives
\* nstd 1 and gamma 10; (-20, 10) gives nstd 1/10 and gamma sqrt(10)/10.
C7_NoiseDerivation ==
    /\ [](hist.awgn # <<>> =>
            /\ q.enabled_awgn = 1
            /\ q.noise_floor_dB = hist.awgn[1]
            /\ q.SNRdB = hist.awgn[2]
            /\ IsPow10Twentieth(q.nstd, hist.awgn[1])
            /\ IsPow10Twentieth(q.gamma, hist.awgn[2] + hist.awgn[1])
            /\ (hist.awgn = <<0, 20>> =>
                    q.nstd = <<1, 0, 0, 0, 1>> /\ q.gamma = <<10, 0, 0, 0, 1>>)
            /\ (hist.awgn = <<-20, 10>> =>
                    q.nstd = <<1, 0, 0, 0, 10>> /\ q.gamma = <<0, 0, 0, 1, 10>>))
    /\ [][call'.op # "add_awgn" => (q'.gamma = q.gamma /\ q'.nstd = q.nstd)]_vars

\* noise configured with (-20, 10), and samples executed afterwards
C7_Witness ==
    /\ hist.awgn = <<-20, 10>>
    /\ call.op = "execute"
    /\ call.n = 2
    /\ q.gamma = <<0, 0, 0, 1, 10>>

\* C8: carrier reconfiguration restarts the phase trajectory.  Right after
\* add_carrier_offset(f, p), however many samples were executed before, the
\* carrier stage is enabled, dphi = f, phi = p, and the oscillator's
\* frequency is f and its phase is p.
C8_CarrierRestart ==
    call.op = "add_carrier_offset" =>
        /\ q.enabled_carrier = 1
        /\ q.dphi = call.a
        /\ q.phi = call.b
        /\ q.nco.d_theta = call.a
        /\ q.nco.theta = call.b

\* the carrier is reconfigured after two samples were executed
C8_Witness ==
    /\ call.op = "add_carrier_offset"
    /\ call.a = 1 /\ call.b = 0
    /\ hist.nsamp = 2
    /\ q.nco.theta = 0

\* C5: multipath over-length is fatal.  add_multipath with a length above
\* 1000 ends the process before the flag, the coefficients, the stored
\* length or the filter are touched; nothing is truncated or clamped.
\* Length 1000 itself is accepted: the stage is enabled and all 1000
\* coefficients are stored and built into the filter.
C5_OverLengthFatal ==
    [][call'.op = "add_multipath" =>
        /\ call'.n > 1000 =>
             (status' = "exited" /\ call'.outcome = "exit" /\ q' = q /\ rng' = rng)
        /\ call'.n = 1000 =>
             /\ status' = "alive" /\ call'.outcome = "ok"
             /\ q'.enabled_multipath = 1
             /\ q'.h_len = 1000
             /\ Len(q'.h) = 1000
             /\ q'.channel_filter.alloc
             /\ q'.channel_filter.h = q'.h
             /\ (call'.h # NULL => \A i \in 1..1000 : q'.h[i] = call'.h[i])
      ]_vars

\* a request for 1001 taps ended the process of an engine holding a one-tap
\* filter
C5_Witness ==
    /\ status = "exited"
    /\ call.op = "add_multipath"
    /\ call.n = 1001
    /\ call.h # NULL
    /\ q.enabled_multipath = 1
    /\ q.h_len = 1
    /\ Len(q.channel_filter.h) = 1

\* C6: multipath identity tap.  After add_multipath with NULL coefficients
\* and a length L, 1 <= L <= 1000, exactly L coefficients are stored and
\* coefficient 0 is exactly 1.0, whatever the generator returned and
\* whatever was stored before.
C6_IdentityTap ==
    (call.op = "add_multipath" /\ call.h = NULL /\ call.n >= 1 /\ call.n <= 1000) =>
        /\ q.h_len = call.n
        /\ Len(q.h) = call.n
        /\ q.h[1] = <<(<<1, 0, 0, 0, 1>>), (<<0, 0, 0, 0, 1>>)>>

\* 1000 random taps were generated, the last of them not zero
C6_Witness ==
    /\ call.op = "add_multipath"
    /\ call.h = NULL
    /\ call.n = 1000
    /\ q.h[1000] # CZero
    /\ q.h[1] # q.h[1000]

\* number of filter instances alive
LiveFilters == (IF heap.filter = "live" THEN 1 ELSE 0) + heap.leaked

\* C11: owned-resource lifecycle.  Over create, any sequence of configure and
\* execute calls (none over-length) and then one destroy: every filter
\* instance created by channel_add_multipath is destroyed exactly once (none
\* is left alive unreferenced, none is released twice), at most one filter
\* instance is alive at any moment, and after destroy the oscillator, the
\* coefficient block, the filter (if one was ever built) and the engine block
\* are all released, none of them twice.
C11_Lifecycle ==
    /\ heap.dfree = 0
    /\ heap.leaked = 0
    /\ LiveFilters <= 1
    /\ status = "alive" =>
        /\ heap.obj = "live" /\ heap.nco = "live" /\ heap.h = "live"
        /\ heap.filter = IF q.channel_filter.alloc THEN "live" ELSE "none"
    /\ status = "destroyed" =>
        /\ heap.obj = "freed" /\ heap.nco = "freed" /\ heap.h = "freed"
        /\ heap.filter = IF q.channel_filter.alloc THEN "freed" ELSE "none"
        /\ LiveFilters = 0

\* an engine whose filter was built and used has been destroyed
C11_Witness ==
    /\ status = "destroyed"
    /\ call.op = "destroy"
    /\ heap.filter = "freed"
    /\ q.enabled_multipath = 1
    /\ q.h_len = 2
    /\ hist.nsamp = 2

\* j^k: the rotation by k quarter turns, k >= 0
RECURSIVE JPow(_)
JPow(k) == IF k = 0 THEN Cx(1, 0) ELSE CMul(Complex_I, JPow(k - 1))

\* C12: carrier phase advance.  With the carrier stage enabled the oscillator
\* phase advances by the frequency offset once per processed sample, after
\* the sample was mixed: n samples after the last add_carrier_offset(f, p)
\* the phase is p + n*f, and the sample at index m since that call was
\* rotated by the phase p + m*f.  The rotated value is isolated by comparing
\* the call with the same call on the engine with the carrier stage off (v is
\* the value that enters the carrier stage, g the gain the noise stage puts
\* on it): y[i] - yoff[i] = g * (v[i] * j^(p + m*f) - v[i]).
C12_PhaseAdvance ==
    /\ [](q.enabled_carrier = 1 =>
            /\ q.nco.d_theta = q.dphi
            /\ q.nco.theta = q.phi + hist.ncar * q.dphi)
    /\ [][(call'.op = "execute" /\ q.enabled_carrier = 1) =>
            \A off \in {channel_execute([q EXCEPT !.enabled_carrier = 0], rng,
                                        call'.x, call'.n, YFresh, order)} :
            \A in \in {channel_execute([q EXCEPT !.enabled_carrier = 0,
                                                 !.enabled_awgn = 0], rng,
                                       call'.x, call'.n, YFresh, order)} :
              \A i \in 0..(call'.n - 1) :
                \A rot \in {JPow(q.phi + (hist.ncar + i) * q.dphi)} :
                  CAdd(call'.y[i], CNeg(off.y[i]))
                    = CScale(IF q.enabled_awgn = 1 THEN q.gamma ELSE ROne,
                             CAdd(CMul(in.y[i], rot), CNeg(in.y[i])))
         ]_vars

\* the second of two one-sample calls after add_carrier_offset(2, 1) has run:
\* the phase went 1, 3, 5
C12_Witness ==
    /\ call.op = "execute"
    /\ call.n = 1
    /\ q.enabled_carrier = 1
    /\ hist.ncar = 2
    /\ q.dphi = 2
    /\ q.nco.theta = 5

\* C13: coefficient storage matches the filter.  After channel_add_multipath
\* with provided coefficients c of valid length L the stage is enabled, the
\* stored length is L and the stored coefficients equal c entry by entry,
\* whether or not L differs from the previous length; and in every reachable
\* state in which a filter exists, the filter holds exactly the currently
\* stored coefficients.
C13_StoredCoefficients ==
    /\ (call.op = "add_multipath" /\ call.outcome = "ok" /\ call.h # NULL) =>
        /\ q.enabled_multipath = 1
        /\ q.h_len = call.n
        /\ Len(q.h) = call.n
        /\ \A i \in 1..call.n : q.h[i] = call.h[i]
    /\ q.channel_filter.alloc =>
        /\ Len(q.channel_filter.h) = q.h_len
        /\ \A i \in 1..q.h_len : q.channel_filter.h[i] = q.h[i]

\* two provided taps were stored, after samples had already been processed,
\* and the filter was built from them
C13_Witness ==
    /\ call.op = "add_multipath"
    /\ call.outcome = "ok"
    /\ call.h = H2
    /\ hist.nsamp = 2
    /\ q.channel_filter.alloc
    /\ q.h = H2
    /\ q.channel_filter.h = H2

\* sum over k = 1..n of h[k] * x[i - k + 1]
RECURSIVE ConvSum(_, _, _, _)
ConvSum(h, x, i, n) ==
    IF n = 0 THEN CZero
    ELSE CAdd(ConvSum(h, x, i, n - 1), CMul(h[n], x[i - n + 1]))

\* the convolution of the samples x alone with the coefficients h
Conv(h, x) ==
    [i \in 1..Len(x) |-> ConvSum(h, x, i, IF i < Len(h) THEN i ELSE Len(h))]

EmptyDelayLine ==
    \A i \in 1..Len(q.channel_filter.w) : q.channel_filter.w[i] = CZero

\* C14: multipath reconfiguration discards the filter history.  Every valid
\* channel_add_multipath call leaves a filter whose delay line is empty, also
\* when the coefficients are the ones the previous filter had; and an execute
\* call that starts with an empty delay line gives what the carrier and noise
\* stages make of the convolution of that call's own input samples with the
\* stored coefficients: nothing pushed before the reconfiguration has a part
\* in it.
C14_HistoryDiscarded ==
    /\ []((call.op = "add_multipath" /\ call.outcome = "ok") =>
            /\ q.channel_filter.alloc
            /\ Len(q.channel_filter.w) = q.h_len
            /\ EmptyDelayLine)
    /\ [][(call'.op = "execute" /\ q.enabled_multipath = 1 /\ EmptyDelayLine) =>
            \A ref \in {channel_execute([q EXCEPT !.enabled_multipath = 0], rng,
                                        Conv(q.h, call'.x), call'.n, YFresh,
                                        order)} :
                /\ \A i \in 0..(call'.n - 1) : call'.y[i] = ref.y[i]
                /\ rng' = ref.rng
                /\ q'.nco = ref.q.nco
         ]_vars

\* a filter that held samples was replaced, and the two-tap filter now in
\* place has been used on one sample only
C14_Witness ==
    /\ hist.discarded
    /\ call.op = "execute"
    /\ call.n = 1
    /\ q.h = H2
    /\ q.channel_filter.w[1] # CZero
    /\ q.channel_filter.w[2] = CZero

\* the engine after the three configure calls made in the given order
ConfigureInOrder(q0, ord, a, c, m) ==
    LET step(qq, k) ==
            IF ord[k] = "awgn" THEN channel_add_awgn(qq, a[1], a[2])
            ELSE IF ord[k] = "carrier"
            THEN channel_add_carrier_offset(qq, c[1], c[2])
            ELSE channel_add_multipath(qq, rng, m[1], m[2],
                                       CHOOSE g \in GarbageVals : TRUE).q
    IN  Bind(step(q0, 1), LAMBDA q1 :
        Bind(step(q1, 2), LAMBDA q2 : step(q2, 3)))

SixOrders ==
    {<<"awgn", "carrier", "multipath">>, <<"awgn", "multipath", "carrier">>,
     <<"carrier", "awgn", "multipath">>, <<"carrier", "multipath", "awgn">>,
     <<"multipath", "awgn", "carrier">>, <<"multipath", "carrier", "awgn">>}

ExplicitMultipathArgs == {m \in MultipathArgs : m[1] # NULL /\ m[2] > 0}

\* C15: the configuration calls are independent of one another.
\* channel_add_awgn changes only the noise fields of the engine,
\* channel_add_carrier_offset only the carrier fields and the oscillator,
\* channel_add_multipath only the multipath fields and the filter; and from
\* any reachable state, one call of each (multipath with provided
\* coefficients), with no execute in between, leaves the same engine whichever
\* of the six orders they are made in.
C15_ConfigIndependent ==
    /\ [][/\ call'.op = "add_awgn" =>
                q' = [q EXCEPT !.enabled_awgn = q'.enabled_awgn,
                               !.noise_floor_dB = q'.noise_floor_dB,
                               !.SNRdB = q'.SNRdB,
                               !.gamma = q'.gamma,
                               !.nstd = q'.nstd]
          /\ call'.op = "add_carrier_offset" =>
                q' = [q EXCEPT !.enabled_carrier = q'.enabled_carrier,
                               !.dphi = q'.dphi,
                               !.phi = q'.phi,
                               !.nco = q'.nco]
          /\ call'.op = "add_multipath" =>
                q' = [q EXCEPT !.enabled_multipath = q'.enabled_multipath,
                               !.h_len = q'.h_len,
                               !.h = q'.h,
                               !.channel_filter = q'.channel_filter]
         ]_vars
    /\ [](status = "alive" =>
            \A a \in AwgnArgs, c \in CarrierArgs, m \in ExplicitMultipathArgs :
                \A first \in {ConfigureInOrder(q, <<"awgn", "carrier", "multipath">>,
                                               a, c, m)} :
                    \A ord \in SixOrders :
                        ConfigureInOrder(q, ord, a, c, m) = first)

\* an engine that has processed samples was given all three stages, the
\* multipath stage last and with provided coefficients
C15_Witness ==
    /\ call.op = "add_multipath"
    /\ call.outcome = "ok"
    /\ call.h = H2
    /\ q.enabled_awgn = 1
    /\ q.enabled_carrier = 1
    /\ q.enabled_multipath = 1
    /\ hist.nsamp = 1

\* the step makes the configure call that was just made once more, with the
\* same arguments
RepeatedConfig ==
    /\ call.op \in ConfigOps
    /\ call'.op = call.op
    /\ call'.a = call.a
    /\ call'.b = call.b
    /\ call'.h = call.h
    /\ call'.n = call.n

\* C16 as stated: a configure call made twice in a row with the same
\* arguments leaves the engine (flags, parameters, coefficients, oscillator,
\* filter coefficients and delay line) as the first call left it.
C16_Idempotent ==
    [][RepeatedConfig => q' = q]_vars

\* C16, amended: channel_add_awgn, channel_add_carrier_offset and
\* channel_add_multipath with provided coefficients (or of length 0), made
\* twice in a row with the same arguments, leave the engine as the first call
\* left it.  channel_add_multipath with NULL coefficients of length 2 or more
\* draws new random taps the second time: the flags, the parameters, the
\* oscillator, the length, tap 0 and the empty delay line are as the first
\* call left them, and the filter holds the newly stored taps.
C16_IdempotentProvided ==
    [][RepeatedConfig =>
        IF call.op = "add_multipath" /\ call.h = NULL /\ call.n >= 2
        THEN /\ q' = [q EXCEPT !.h = q'.h, !.channel_filter.h = q'.h]
             /\ Len(q'.h) = Len(q.h)
             /\ q'.h[1] = q.h[1]
        ELSE q' = q
      ]_vars

\* add_multipath with two provided taps has just been made a second time, on
\* an engine whose earlier filter had held samples
C16_Witness ==
    /\ call.rep
    /\ call.op = "add_multipath"
    /\ call.outcome = "ok"
    /\ call.h = H2
    /\ hist.discarded
    /\ q.h = H2

\* no call has ever begun while another was in progress
Serialized == ~thr.overlap

\* C17: no synchronization.  With channel_add_multipath and channel_execute
\* interleaved a statement at a time, execute can reach FIRFILT(_push) or
\* FIRFILT(_execute) while channel_filter refers to a filter that
\* channel_add_multipath has destroyed and not yet replaced (the witness);
\* with the calls serialized it never does: a filter is used while not alive
\* only in a behaviour in which two calls overlapped, and a call that ran
\* alone leaves exactly what the call leaves when taken as one step.
C17_HazardNeedsOverlap ==
    /\ thr.hazard # "none" => ~Serialized
    /\ (Serialized /\ thr.e \in {"push", "execute"}) => heap.filter = "live"
    /\ (Serialized /\ thr.m = "idle" /\ thr.e = "idle"
            /\ call.op = "add_multipath") =>
            \A r \in {channel_add_multipath(thr.pre[1], thr.pre[2], call.h,
                                            call.n, thr.g)} :
                r.q = q /\ r.rng = rng /\ r.outcome = "ok"
    /\ (Serialized /\ thr.m = "idle" /\ thr.e = "idle"
            /\ call.op = "execute") =>
            \A r \in {channel_execute(thr.pre[1], thr.pre[2], call.x, call.n,
                                      YFresh, order)} :
                r.q = q /\ r.rng = rng /\ r.y = call.y /\ r.ny = call.ny

\* execute has used the filter between channel_add_multipath's
\* FIRFILT(_destroy) and its FIRFILT(_create)
C17_Witness ==
    /\ thr.hazard = "destroyed_filter"
    /\ thr.m = "create"
    /\ thr.e \in {"push", "execute", "carrier"}
    /\ heap.filter = "freed"
    /\ q.channel_filter.alloc

\* C18: in every state reached by create and any sequence of configure and
\* execute calls, zero-length and over-length multipath calls among them: if
\* the multipath stage is enabled, channel_filter is not NULL and refers to a
\* live filter, so execute never pushes into a missing filter; and the stored
\* coefficient length is at least 1 and at most 1000, with that many
\* coefficients stored.
C18_FilterPresent ==
    /\ q.enabled_multipath = 1 =>
        /\ q.channel_filter.alloc
        /\ heap.filter = "live"
    /\ 1 <= q.h_len
    /\ q.h_len <= MAX_H_LEN
    /\ Len(q.h) = q.h_len

\* a filter of the greatest length allowed has been used by execute
C18_Witness ==
    /\ call.op = "execute"
    /\ call.n = 1
    /\ q.enabled_multipath = 1
    /\ q.channel_filter.alloc
    /\ q.h_len = MAX_H_LEN
    /\ q.channel_filter.w[1] # CZero

\* C19: the stage enable flags are monotone.  Once a stage's flag is set, no
\* call of a configure function (with a valid or a zero length) or of
\* execute clears it, up to the destruction of the engine: for each of the
\* three flags, set before a step implies set after it.
C19_FlagsMonotone ==
    [][/\ q.enabled_awgn = 1 => q'.enabled_awgn = 1
       /\ q.enabled_carrier = 1 => q'.enabled_carrier = 1
       /\ q.enabled_multipath = 1 => q'.enabled_multipath = 1
       /\ \A f \in {"enabled_awgn", "enabled_carrier", "enabled_multipath"} :
              q'[f] \in {0, 1}
      ]_vars

\* with all three stages enabled and samples processed, a zero-length
\* multipath call was made
C19_Witness ==
    /\ call.op = "add_multipath"
    /\ call.outcome = "ignored"
    /\ q.enabled_awgn = 1
    /\ q.enabled_carrier = 1
    /\ q.enabled_multipath = 1
    /\ hist.nsamp = 2

\* C20: execute leaves the configuration alone.  A call of channel_execute
\* changes none of the three flags, noise_floor_dB, SNRdB, gamma, nstd, dphi,
\* phi, the stored coefficients and their length, the filter's coefficients,
\* which filter the engine owns, or the oscillator's frequency.  It changes
\* the oscillator's phase only if the carrier stage is enabled, the filter's
\* delay line only if the multipath stage is enabled and the generator's
\* state only if the noise stage is enabled; the collaborator of a disabled
\* stage is not touched.
C20_ExecuteFrame ==
    [][call'.op = "execute" =>
        /\ q' = [q EXCEPT !.nco.theta = q'.nco.theta,
                          !.channel_filter.w = q'.channel_filter.w]
        /\ heap' = heap
        /\ q.enabled_carrier = 0 => q'.nco = q.nco
        /\ q.enabled_multipath = 0 => q'.channel_filter = q.channel_filter
        /\ q.enabled_awgn = 0 => rng' = rng
        /\ q.enabled_awgn = 1 => rng' = rng_advance(rng, 2 * call'.n)
      ]_vars

\* two samples went through an engine with the multipath stage enabled and
\* the carrier and noise stages disabled
C20_Witness ==
    /\ call.op = "execute"
    /\ call.n = 2
    /\ q.enabled_multipath = 1
    /\ q.enabled_carrier = 0
    /\ q.enabled_awgn = 0
    /\ q.channel_filter.w[1] # CZero
    /\ q.nco = nco_create

====
